---- MODULE Spec2Model ----
(***************************************************************************)
(* Presentation-exchange matching (pkg/doc/presexch, Match) and the        *)
(* credential extension switch (pkg/doc/verifiable,                        *)
(* CreateCustomCredential) of aries-framework-go.                          *)
(*                                                                         *)
(* Go values are modelled as follows.                                      *)
(*   - a pointer that may be nil is a sequence of length 0 (nil) or 1;     *)
(*   - interface{} JSON values are tagged records [t, s, a, o];            *)
(*   - a Go map is a function whose DOMAIN is the key set;                 *)
(*   - an error is a record [chain, id, path, uri, ctx]: chain is the      *)
(*     sequence of message prefixes from the outermost fmt.Errorf wrapper  *)
(*     to the innermost cause, the other fields are the values formatted   *)
(*     into the message.                                                   *)
(***************************************************************************)
EXTENDS Integers, Sequences, FiniteSets, TLC

VARIABLES
    definition,   \* Match: the receiver p (*PresentationDefinitions)
    vp,           \* Match: the argument *verifiable.Presentation
    matchOut,     \* Match: what the call produced
    producers,    \* CreateCustomCredential: the producer list of the caller
    cred1,        \* the Cred1 objects made by NewCred1Producer, by instance
    vcData,       \* CreateCustomCredential: the bytes of the last call
    customOut,    \* CreateCustomCredential: what the last call produced
    calls,        \* CreateCustomCredential: number of calls made
    provider,     \* packager: the Provider handed to New
    packager,     \* packager: the *Packager New returned, nil before
    newOut,       \* packager: what New produced
    encMessage,   \* packager: the message of the last UnpackMessage call
    unpackOut,    \* packager: what the last UnpackMessage call produced
    runs,         \* the calls of Match and CreateCustomCredential that returned
    workers       \* the goroutines making calls: where each is in its call

matchVars == <<definition, vp, matchOut>>

customVars == <<producers, cred1, vcData, customOut, calls>>

packagerVars == <<provider, packager, newOut, encMessage, unpackOut>>

runVars == <<runs, workers>>

vars == <<matchVars, customVars, packagerVars, runVars>>

-----------------------------------------------------------------------------
(* Bounds of the model. *)

MaxDescriptors == 2

MaxMappings == 2

MaxProducers == 2

MaxCalls == 2

MaxInboundPackers == 2

MaxRuns == 3

-----------------------------------------------------------------------------
(* Generic helpers for Go values. *)

Nil == <<>>

Ptr(x) == <<x>>

IsNil(p) == Len(p) = 0

Deref(p) == p[1]

SeqsUpTo(S, n) == UNION {[1..k -> S] : k \in 0..n}

EmptyMap == [k \in {} |-> k]

MapPut(m, k, v) == [x \in (DOMAIN m) \cup {k} |-> IF x = k THEN v ELSE m[x]]

(* interface{} holding decoded JSON. *)
JNull == [t |-> "null", s |-> "", a |-> <<>>, o |-> EmptyMap]

JStr(str) == [t |-> "string", s |-> str, a |-> <<>>, o |-> EmptyMap]

JNum == [t |-> "number", s |-> "", a |-> <<>>, o |-> EmptyMap]

JArr(arr) == [t |-> "array", s |-> "", a |-> arr, o |-> EmptyMap]

JObj(obj) == [t |-> "object", s |-> "", a |-> <<>>, o |-> obj]

JStrings(strs) == JArr([i \in 1..Len(strs) |-> JStr(strs[i])])

NoError == [chain |-> <<>>, id |-> "", path |-> "", uri |-> <<>>, ctx |-> <<>>]

Errorf(msg, id, path, uri, ctx) ==
    [chain |-> <<msg>>, id |-> id, path |-> path, uri |-> uri, ctx |-> ctx]

(* fmt.Errorf("msg: %w", err) *)
Wrap(msg, err) == [err EXCEPT !.chain = <<msg>> \o @]

IsError(err) == err.chain # <<>>

-----------------------------------------------------------------------------
(* Constants of package presexch. *)

PresentationSubmissionJSONLDContext ==
    "https://identity.foundation/presentation-exchange/submission/v1"

PresentationSubmissionJSONLDType == "PresentationSubmission"

submissionProperty == "presentation_submission"

descriptorMapProperty == "descriptor_map"

-----------------------------------------------------------------------------
(* Collaborators of Match that live outside the package.                    *)

(* Presentation.MarshalJSON followed by json.Unmarshal into interface{}:    *)
(* the typeless document the JSONPath expressions are run against.  The     *)
(* verifiableCredential member is omitted when the presentation holds no    *)
(* credential; custom fields are inlined at the top level.                  *)
TypelessVP(pres) ==
    LET base == [k \in {"@context", "type"} |->
                    IF k = "@context" THEN JStrings(pres.Context)
                                      ELSE JStrings(pres.Type)]
        withVC == IF pres.credentials = <<>> THEN base
                  ELSE MapPut(base, "verifiableCredential", JArr(pres.credentials))
    IN  JObj([k \in (DOMAIN withVC) \cup (DOMAIN pres.CustomFields) |->
                IF k \in DOMAIN pres.CustomFields THEN pres.CustomFields[k]
                                                  ELSE withVC[k]])

P0 == "$.verifiableCredential[0]"

P1 == "$.verifiableCredential[1]"

PBad == "$.verifiableCredential["

(* gval builder.NewEvaluable: compiles a JSONPath expression into the       *)
(* member/index steps it performs, or fails on a malformed expression.      *)
NewEvaluable(jsonPath) ==
    CASE jsonPath = P0 ->
            [ok |-> TRUE, steps |-> <<[key |-> "verifiableCredential", idx |-> -1],
                                      [key |-> "", idx |-> 0]>>]
      [] jsonPath = P1 ->
            [ok |-> TRUE, steps |-> <<[key |-> "verifiableCredential", idx |-> -1],
                                      [key |-> "", idx |-> 1]>>]
      [] OTHER -> [ok |-> FALSE, steps |-> <<>>]

(* Running a compiled path: each step selects an object member or an array  *)
(* element; a missing member or an index out of range is an error.          *)
RECURSIVE EvalSteps(_, _, _)
EvalSteps(steps, i, node) ==
    IF i > Len(steps) THEN [ok |-> TRUE, val |-> node]
    ELSE LET st == steps[i] IN
         IF st.idx < 0
         THEN IF node.t = "object" /\ st.key \in DOMAIN node.o
              THEN EvalSteps(steps, i + 1, node.o[st.key])
              ELSE [ok |-> FALSE, val |-> JNull]
         ELSE IF node.t = "array" /\ st.idx + 1 <= Len(node.a)
              THEN EvalSteps(steps, i + 1, node.a[st.idx + 1])
              ELSE [ok |-> FALSE, val |-> JNull]

StringsOf(node) == [i \in 1..Len(node.a) |-> node.a[i].s]

(* A parser without structural validation: any JSON object is a credential. *)
ParseCredentialLenient(node) ==
    IF node.t = "object"
    THEN [ok |-> TRUE,
          vc |-> [ID |-> IF "id" \in DOMAIN node.o THEN node.o["id"].s ELSE "",
                  Context |-> IF "@context" \in DOMAIN node.o
                              THEN StringsOf(node.o["@context"]) ELSE <<>>,
                  Types |-> IF "type" \in DOMAIN node.o
                            THEN StringsOf(node.o["type"]) ELSE <<>>]]
    ELSE [ok |-> FALSE, vc |-> [ID |-> "", Context |-> <<>>, Types |-> <<>>]]

(* verifiable.ParseCredential: a JSON object with the mandatory members     *)
(* becomes a *Credential; anything else is rejected.                        *)
ParseCredential(node) ==
    IF /\ node.t = "object"
       /\ {"@context", "id", "type", "issuer"} \subseteq DOMAIN node.o
       /\ node.o["@context"].t = "array"
       /\ node.o["type"].t = "array"
    THEN [ok |-> TRUE,
          vc |-> [ID |-> node.o["id"].s,
                  Context |-> StringsOf(node.o["@context"]),
                  Types |-> StringsOf(node.o["type"])]]
    ELSE [ok |-> FALSE, vc |-> [ID |-> "", Context |-> <<>>, Types |-> <<>>]]

-----------------------------------------------------------------------------
(* Package presexch. *)

stringsContain(s, val) == \E i \in 1..Len(s) : s[i] = val

(* Compares a with itself: any two non-empty sequences "intersect". *)
stringsIntersectTypo(a, b) == \E i \in 1..Len(a) : \E j \in 1..Len(b) : a[i] = a[i]

stringsIntersect(a, b) == \E i \in 1..Len(a) : \E j \in 1..Len(b) : a[i] = b[j]

descriptorIDs(input) == [i \in 1..Len(input) |-> input[i].ID]

(* The last descriptor with the id instead of the first. *)
inputDescriptorLast(p, id) ==
    LET hits == {i \in 1..Len(p.InputDescriptors) : p.InputDescriptors[i].ID = id}
    IN  IF hits = {} THEN Nil
        ELSE Ptr(p.InputDescriptors[CHOOSE i \in hits : \A j \in hits : j <= i])

(* The first descriptor with the id, as a pointer; nil when there is none. *)
inputDescriptor(p, id) ==
    LET hits == {i \in 1..Len(p.InputDescriptors) : p.InputDescriptors[i].ID = id}
    IN  IF hits = {} THEN Nil
        ELSE Ptr(p.InputDescriptors[CHOOSE i \in hits : \A j \in hits : i <= j])

(* The type check is left out. *)
checkJSONLDContextTypeContextOnly(pres) ==
    IF ~stringsContain(pres.Context, PresentationSubmissionJSONLDContext)
    THEN Errorf("input verifiable presentation must have json-ld context",
                "", "", <<>>, <<>>)
    ELSE NoError

checkJSONLDContextType(pres) ==
    IF ~stringsContain(pres.Context, PresentationSubmissionJSONLDContext)
    THEN Errorf("input verifiable presentation must have json-ld context",
                "", "", <<>>, <<>>)
    ELSE IF ~stringsContain(pres.Type, PresentationSubmissionJSONLDType)
    THEN Errorf("input verifiable presentation must have json-ld type",
                "", "", <<>>, <<>>)
    ELSE NoError

(* json.Unmarshal of one descriptor_map element into *InputDescriptorMapping: *)
(* null gives a nil pointer, an object gives a struct whose string fields     *)
(* are filled from string members (absent or null members leave ""), and any  *)
(* other element or member type is an unmarshal error.                        *)
MemberOK(obj, k) == k \notin DOMAIN obj \/ obj[k].t \in {"string", "null"}

MemberString(obj, k) == IF k \in DOMAIN obj /\ obj[k].t = "string" THEN obj[k].s ELSE ""

(* Elements that cannot be decoded are skipped (left nil) without an error. *)
UnmarshalMappingLenient(node) ==
    CASE node.t = "object" /\ MemberOK(node.o, "id") /\ MemberOK(node.o, "path") ->
            [ok |-> TRUE,
             ptr |-> Ptr([ID |-> MemberString(node.o, "id"),
                          Path |-> MemberString(node.o, "path")])]
      [] OTHER -> [ok |-> TRUE, ptr |-> Nil]

UnmarshalMapping(node) ==
    CASE node.t = "null" -> [ok |-> TRUE, ptr |-> Nil]
      [] node.t = "object" /\ MemberOK(node.o, "id") /\ MemberOK(node.o, "path") ->
            [ok |-> TRUE,
             ptr |-> Ptr([ID |-> MemberString(node.o, "id"),
                          Path |-> MemberString(node.o, "path")])]
      [] OTHER -> [ok |-> FALSE, ptr |-> Nil]

parseDescriptorMap(pres) ==
    LET cf == pres.CustomFields IN
    IF ~(submissionProperty \in DOMAIN cf /\ cf[submissionProperty].t = "object")
    THEN [err |-> Errorf("missing 'presentation_submission' on verifiable presentation",
                         "", "", <<>>, <<>>),
          val |-> <<>>]
    ELSE LET submission == cf[submissionProperty].o IN
    IF ~(descriptorMapProperty \in DOMAIN submission
         /\ submission[descriptorMapProperty].t = "array")
    THEN [err |-> Errorf("missing 'descriptor_map' on verifiable presentation",
                         "", "", <<>>, <<>>),
          val |-> <<>>]
    ELSE LET descriptorMap == submission[descriptorMapProperty].a
             typed == [i \in 1..Len(descriptorMap) |-> UnmarshalMapping(descriptorMap[i])]
         IN  IF \E i \in 1..Len(typed) : ~typed[i].ok
             THEN [err |-> Errorf("failed to unmarshal descriptor map", "", "", <<>>, <<>>),
                   val |-> <<>>]
             ELSE [err |-> NoError,
                   val |-> [i \in 1..Len(typed) |-> typed[i].ptr]]

NoCredential == [ID |-> "", Context |-> <<>>, Types |-> <<>>]

selectByPath(typelessVP, jsonPath) ==
    LET path == NewEvaluable(jsonPath) IN
    IF ~path.ok
    THEN [err |-> Errorf("failed to build new json path evaluator", "", jsonPath, <<>>, <<>>),
          vc |-> NoCredential]
    ELSE LET cred == EvalSteps(path.steps, 1, typelessVP) IN
    IF ~cred.ok
    THEN [err |-> Errorf("failed to evaluate json path", "", jsonPath, <<>>, <<>>),
          vc |-> NoCredential]
    ELSE LET parsed == ParseCredential(cred.val) IN
    IF ~parsed.ok
    THEN [err |-> Errorf("failed to parse credential", "", "", <<>>, <<>>),
          vc |-> NoCredential]
    ELSE [err |-> NoError, vc |-> parsed.vc]

(* Off by one: the last descriptor id is never looked up. *)
evalSubmissionRequirementsOffByOne(p, matched) ==
    LET ids == descriptorIDs(p.InputDescriptors)
        missing == {i \in 1..(Len(ids) - 1) : ids[i] \notin DOMAIN matched}
    IN  IF missing = {} THEN NoError
        ELSE Errorf("no credential provided for input descriptor",
                    ids[CHOOSE i \in missing : \A j \in missing : i <= j],
                    "", <<>>, <<>>)

(* The first descriptor id, in definition order, that is no key of matched. *)
evalSubmissionRequirements(p, matched) ==
    LET ids == descriptorIDs(p.InputDescriptors)
        missing == {i \in 1..Len(ids) : ids[i] \notin DOMAIN matched}
    IN  IF missing = {} THEN NoError
        ELSE Errorf("no credential provided for input descriptor",
                    ids[CHOOSE i \in missing : \A j \in missing : i <= j],
                    "", <<>>, <<>>)

(* What a call of Match produced.  status "panic" is a Go run-time panic      *)
(* (nil pointer dereference): the call returns neither a map nor an error.    *)
(* resolved lists, in call order, the descriptor_map indices (from 1) that    *)
(* selectByPath was called for.                                               *)
Returned(result, resolved) ==
    [status |-> "ok", result |-> Ptr(result), err |-> NoError, resolved |-> resolved]

Failed(err, resolved) ==
    [status |-> "error", result |-> Nil, err |-> err, resolved |-> resolved]

Panicked(resolved) ==
    [status |-> "panic", result |-> Nil, err |-> NoError, resolved |-> resolved]

NotCalled == [status |-> "none", result |-> Nil, err |-> NoError, resolved |-> <<>>]

(* The id check is left out. *)
mappingIDKnownAlways(p, mapping) == TRUE

(* Line 145: the mapping's id is the id of some input descriptor. *)
mappingIDKnown(p, mapping) ==
    stringsContain(descriptorIDs(p.InputDescriptors), mapping.ID)

(* The path is resolved before the mapping's id is looked up. *)
MatchEntrySelectFirst(p, typelessVP, entry) ==
    IF IsNil(entry)
    THEN [kind |-> "panic", err |-> NoError, id |-> "", vc |-> NoCredential,
          selected |-> FALSE]
    ELSE LET mapping == Deref(entry)
             sel == selectByPath(typelessVP, mapping.Path)
         IN
    IF IsError(sel.err)
    THEN [kind |-> "error",
          err |-> Wrap("failed to select vc from submission", sel.err),
          id |-> mapping.ID, vc |-> NoCredential, selected |-> TRUE]
    ELSE IF ~mappingIDKnown(p, mapping)
    THEN [kind |-> "error",
          err |-> Errorf("an descriptor_map ID was found that did not match the id property of any input descriptor",
                         mapping.ID, "", <<>>, <<>>),
          id |-> mapping.ID, vc |-> NoCredential, selected |-> TRUE]
    ELSE LET desc == inputDescriptor(p, mapping.ID) IN
    IF IsNil(desc) \/ IsNil(Deref(desc).Schema)
    THEN [kind |-> "panic", err |-> NoError, id |-> mapping.ID, vc |-> sel.vc,
          selected |-> TRUE]
    ELSE
    IF ~stringsIntersect(sel.vc.Context, Deref(Deref(desc).Schema).URI)
    THEN [kind |-> "error",
          err |-> Errorf("input descriptor id requires schema uri which is not in vc context",
                         Deref(desc).ID, "", Deref(Deref(desc).Schema).URI,
                         sel.vc.Context),
          id |-> mapping.ID, vc |-> sel.vc, selected |-> TRUE]
    ELSE [kind |-> "put", err |-> NoError, id |-> mapping.ID, vc |-> sel.vc,
          selected |-> TRUE]

(* One iteration of the loop of Match, for the element entry of               *)
(* descriptorMap: kind "put" stores vc under id in result, "error" returns    *)
(* err, "panic" is a nil dereference (of the mapping at line 145, or of the   *)
(* descriptor's Schema at line 159).  selected says whether selectByPath was  *)
(* called.                                                                    *)
MatchEntry(p, typelessVP, entry) ==
    IF IsNil(entry)
    THEN [kind |-> "panic", err |-> NoError, id |-> "", vc |-> NoCredential,
          selected |-> FALSE]
    ELSE LET mapping == Deref(entry) IN
    IF ~mappingIDKnown(p, mapping)
    THEN [kind |-> "error",
          err |-> Errorf("an descriptor_map ID was found that did not match the id property of any input descriptor",
                         mapping.ID, "", <<>>, <<>>),
          id |-> mapping.ID, vc |-> NoCredential, selected |-> FALSE]
    ELSE LET sel == selectByPath(typelessVP, mapping.Path) IN
    IF IsError(sel.err)
    THEN [kind |-> "error",
          err |-> Wrap("failed to select vc from submission", sel.err),
          id |-> mapping.ID, vc |-> NoCredential, selected |-> TRUE]
    ELSE LET desc == inputDescriptor(p, mapping.ID) IN
    IF IsNil(desc) \/ IsNil(Deref(desc).Schema)
    THEN [kind |-> "panic", err |-> NoError, id |-> mapping.ID, vc |-> sel.vc,
          selected |-> TRUE]
    ELSE
    IF ~stringsIntersect(sel.vc.Context, Deref(Deref(desc).Schema).URI)
    THEN [kind |-> "error",
          err |-> Errorf("input descriptor id requires schema uri which is not in vc context",
                         Deref(desc).ID, "", Deref(Deref(desc).Schema).URI,
                         sel.vc.Context),
          id |-> mapping.ID, vc |-> sel.vc, selected |-> TRUE]
    ELSE [kind |-> "put", err |-> NoError, id |-> mapping.ID, vc |-> sel.vc,
          selected |-> TRUE]

RECURSIVE MatchLoopKeepFirst(_, _, _, _, _, _)
RECURSIVE MatchLoopLastError(_, _, _, _, _, _, _)
RECURSIVE MatchLoop(_, _, _, _, _, _)

(* A failing mapping does not end the loop: the error of the last failing     *)
(* mapping is returned once every mapping was visited.                        *)
MatchLoopLastError(p, typelessVP, descriptorMap, i, result, resolved, lastErr) ==
    IF i > Len(descriptorMap)
    THEN IF IsError(lastErr) THEN Failed(lastErr, resolved)
         ELSE LET err == evalSubmissionRequirements(p, result) IN
              IF IsError(err)
              THEN Failed(Wrap("failed submission requirements", err), resolved)
              ELSE Returned(result, resolved)
    ELSE LET step == MatchEntry(p, typelessVP, descriptorMap[i])
             resolved2 == IF step.selected THEN Append(resolved, i) ELSE resolved
         IN  CASE step.kind = "panic" -> Panicked(resolved2)
               [] step.kind = "error" ->
                    MatchLoopLastError(p, typelessVP, descriptorMap, i + 1,
                                       result, resolved2, step.err)
               [] OTHER ->
                    MatchLoopLastError(p, typelessVP, descriptorMap, i + 1,
                                       MapPut(result, step.id, step.vc), resolved2,
                                       lastErr)

MatchLoopCollect(p, typelessVP, descriptorMap, i, result, resolved) ==
    MatchLoopLastError(p, typelessVP, descriptorMap, i, result, resolved, NoError)

(* An id already in result keeps its first credential. *)
MatchLoopKeepFirst(p, typelessVP, descriptorMap, i, result, resolved) ==
    IF i > Len(descriptorMap)
    THEN LET err == evalSubmissionRequirements(p, result) IN
         IF IsError(err)
         THEN Failed(Wrap("failed submission requirements", err), resolved)
         ELSE Returned(result, resolved)
    ELSE LET step == MatchEntry(p, typelessVP, descriptorMap[i])
             resolved2 == IF step.selected THEN Append(resolved, i) ELSE resolved
         IN  CASE step.kind = "panic" -> Panicked(resolved2)
               [] step.kind = "error" -> Failed(step.err, resolved2)
               [] OTHER ->
                    MatchLoopKeepFirst(p, typelessVP, descriptorMap, i + 1,
                        IF step.id \in DOMAIN result THEN result
                        ELSE MapPut(result, step.id, step.vc), resolved2)

(* The loop of Match over descriptorMap from index i, then the submission     *)
(* requirements and the return.                                               *)
MatchLoop(p, typelessVP, descriptorMap, i, result, resolved) ==
    IF i > Len(descriptorMap)
    THEN LET err == evalSubmissionRequirements(p, result) IN
         IF IsError(err)
         THEN Failed(Wrap("failed submission requirements", err), resolved)
         ELSE Returned(result, resolved)
    ELSE LET step == MatchEntry(p, typelessVP, descriptorMap[i])
             resolved2 == IF step.selected THEN Append(resolved, i) ELSE resolved
         IN  CASE step.kind = "panic" -> Panicked(resolved2)
               [] step.kind = "error" -> Failed(step.err, resolved2)
               [] OTHER -> MatchLoop(p, typelessVP, descriptorMap, i + 1,
                                     MapPut(result, step.id, step.vc), resolved2)

Match(p, pres) ==
    LET err == checkJSONLDContextType(pres) IN
    IF IsError(err) THEN Failed(err, <<>>)
    ELSE LET typelessVP == TypelessVP(pres)
             dm == parseDescriptorMap(pres)
         IN
    IF IsError(dm.err) THEN Failed(Wrap("failed to parse descriptor map", dm.err), <<>>)
    ELSE MatchLoop(p, typelessVP, dm.val, 1, EmptyMap, <<>>)

-----------------------------------------------------------------------------
(* The inputs Match is exercised on. *)

DescriptorIDSet == {"d1", "d2"}

MappingIDSet == DescriptorIDSet \cup {"dX"}

SchemaSet == {Nil, Ptr([URI |-> <<"u1">>]), Ptr([URI |-> <<"u2">>])}

InputDescriptorSet == [ID : DescriptorIDSet, Schema : SchemaSet]

DefinitionSet == [InputDescriptors : SeqsUpTo(InputDescriptorSet, MaxDescriptors)]

W3CContext == "https://www.w3.org/2018/credentials/v1"

RawCredential(id, ctx) ==
    JObj([k \in {"@context", "id", "type", "issuer"} |->
            CASE k = "@context" -> JStrings(ctx)
              [] k = "type" -> JStrings(<<"VerifiableCredential">>)
              [] OTHER -> JStr(id)])

CredA == RawCredential("vcA", <<W3CContext, "u1">>)

CredB == RawCredential("vcB", <<W3CContext, "u1", "u2">>)

(* Missing mandatory members: the credential parser rejects it. *)
CredJunk == JObj([k \in {"@context"} |-> JStrings(<<W3CContext>>)])

(* With the second list P0 selects a value the parser rejects and P1 selects *)
(* nothing.                                                                 *)
CredentialLists == {<<CredA, CredB>>, <<CredJunk>>}

MappingEntry(id, path) ==
    JObj([k \in {"id", "path"} |-> IF k = "id" THEN JStr(id) ELSE JStr(path)])

EntrySet == {MappingEntry(id, path) : id \in MappingIDSet, path \in {P0, P1, PBad}}
            \cup {JNull}

(* An element json.Unmarshal cannot decode into an InputDescriptorMapping. *)
BadEntry == JObj([k \in {"id"} |-> JNum])

MalformedSubmissionSet ==
    {JStr("x"),
     JObj(EmptyMap),
     JObj([k \in {descriptorMapProperty} |-> JStr("x")]),
     JObj([k \in {descriptorMapProperty} |-> JArr(<<BadEntry>>)]),
     JObj([k \in {descriptorMapProperty} |-> JArr(<<MappingEntry("d1", P0), BadEntry>>)])}

SubmissionsUpTo(n) ==
    {JObj([k \in {descriptorMapProperty} |-> JArr(dm)]) : dm \in SeqsUpTo(EntrySet, n)}

CustomFieldsUpTo(n) ==
    {EmptyMap}
    \cup {[k \in {submissionProperty} |-> sub] :
            sub \in MalformedSubmissionSet \cup SubmissionsUpTo(n)}

GoodContext == <<W3CContext, PresentationSubmissionJSONLDContext>>

GoodType == <<"VerifiablePresentation", PresentationSubmissionJSONLDType>>

ContextSet == {<<W3CContext>>, GoodContext}

TypeSet == {<<"VerifiablePresentation">>, GoodType}

(* Presentations with the submission context and type carry descriptor maps *)
(* of up to MaxMappings entries; those without one of them carry descriptor *)
(* maps of up to two entries.                                               *)
PresentationSet ==
    [Context : {GoodContext}, Type : {GoodType}, credentials : CredentialLists,
     CustomFields : CustomFieldsUpTo(MaxMappings)]
    \cup
    [Context : ContextSet, Type : TypeSet, credentials : CredentialLists,
     CustomFields : CustomFieldsUpTo(2)]

-----------------------------------------------------------------------------------------------------------------------------------------------------
(* Package verifiable: the credential extension switch and the producers of *)
(* its test.                                                                *)

(* A typed object: *Credential (Base alone), *Cred1 or *Cred2. *)
Object(type, base, subjectID, subjectField, customField) ==
    [type |-> type, Base |-> base, SubjectID |-> subjectID,
     SubjectField |-> subjectField, CustomField |-> customField]

(* The zero value &Cred1{} / Cred2{}. *)
ZeroObject(type) == Object(type, NoCredential, "", "", "")

(* A returned interface{} value: ref is the Cred1 instance it points to (0  *)
(* when it points to an object of its own), val the object at return time.  *)
Reference(ref, val) == [ref |-> ref, val |-> val]

(* hasType compares a type with itself: any non-empty list has the type. *)
hasTypeTypo(allTypes, targetType) ==
    \E i \in 1..Len(allTypes) : allTypes[i] = allTypes[i]

hasType(allTypes, targetType) ==
    \E i \in 1..Len(allTypes) : allTypes[i] = targetType

(* json.Unmarshal(dataJSON, obj) for the structs Cred1 and Cred2: members   *)
(* of dataJSON set the fields they name, fields without a member keep their *)
(* value, and a member of the wrong JSON type is skipped and reported once  *)
(* the other fields are decoded.  subjectKey and customKey are the json     *)
(* tags ("s1", "c1" for Cred1; "s2", "c2" for Cred2).                       *)
StringMember(obj, k, old) ==
    IF k \in DOMAIN obj /\ obj[k].t = "string" THEN obj[k].s ELSE old

UnmarshalCustom(dataJSON, obj, subjectKey, customKey) ==
    LET o == dataJSON.o
        subj == IF "credentialSubject" \in DOMAIN o /\ o["credentialSubject"].t = "object"
                THEN o["credentialSubject"].o ELSE EmptyMap
        badSubject == "credentialSubject" \in DOMAIN o
                      /\ o["credentialSubject"].t \notin {"object", "null"}
    IN  [ok |-> /\ dataJSON.t = "object"
                /\ ~badSubject
                /\ MemberOK(subj, "id") /\ MemberOK(subj, subjectKey)
                /\ MemberOK(o, customKey),
         obj |-> IF dataJSON.t # "object" THEN obj
                 ELSE [obj EXCEPT !.SubjectID = StringMember(subj, "id", @),
                                  !.SubjectField = StringMember(subj, subjectKey, @),
                                  !.CustomField = StringMember(o, customKey, @)]]

UnmarshalError ==
    Errorf("json: cannot unmarshal into Go struct field", "", "", <<>>, <<>>)

(* The producers.  Accept(vc) is a predicate of the base credential;        *)
(* Apply(vc, dataJSON, heap) gives [err, ref, heap]: the error, the         *)
(* returned value and the Cred1 objects after the call.                     *)
Cred1Accept(vc) == hasType(vc.Types, "CredType1")

(* Cred1 can produce itself: Apply decodes into the receiver and returns it. *)
Cred1Apply(inst, vc, dataJSON, heap) ==
    LET dec == UnmarshalCustom(dataJSON, heap[inst], "s1", "c1") IN
    IF ~dec.ok
    THEN [err |-> UnmarshalError, ref |-> Nil,
          heap |-> [heap EXCEPT ![inst] = dec.obj]]
    ELSE LET c1 == [dec.obj EXCEPT !.Base = vc] IN
         [err |-> NoError, ref |-> Ptr(Reference(inst, c1)),
          heap |-> [heap EXCEPT ![inst] = c1]]

(* Copied from Cred1: accepts CredType1 instead of CredType2. *)
Cred2ProducerAcceptCopied(vc) == hasType(vc.Types, "CredType1")

Cred2ProducerAccept(vc) == hasType(vc.Types, "CredType2")

Cred2ProducerApply(vc, dataJSON, heap) ==
    LET dec == UnmarshalCustom(dataJSON, ZeroObject("Cred2"), "s2", "c2") IN
    IF ~dec.ok
    THEN [err |-> UnmarshalError, ref |-> Nil, heap |-> heap]
    ELSE [err |-> NoError,
          ref |-> Ptr(Reference(0, [dec.obj EXCEPT !.Base = vc])),
          heap |-> heap]

FailingCredentialProducerAccept(vc) == TRUE

(* Returns the base credential instead of failing. *)
FailingCredentialProducerApplyOK(vc, dataJSON, heap) ==
    [err |-> NoError,
     ref |-> Ptr(Reference(0, Object("Credential", vc, "", "", ""))),
     heap |-> heap]

FailingCredentialProducerApply(vc, dataJSON, heap) ==
    [err |-> Errorf("failed to apply credential extension", "", "", <<>>, <<>>),
     ref |-> Nil, heap |-> heap]

(* Dynamic dispatch on the CustomCredentialProducer interface. *)
Accept(producer, vc) ==
    CASE producer.kind = "Cred1" -> Cred1Accept(vc)
      [] producer.kind = "Cred2Producer" -> Cred2ProducerAccept(vc)
      [] OTHER -> FailingCredentialProducerAccept(vc)

Apply(producer, vc, dataJSON, heap) ==
    CASE producer.kind = "Cred1" -> Cred1Apply(producer.inst, vc, dataJSON, heap)
      [] producer.kind = "Cred2Producer" -> Cred2ProducerApply(vc, dataJSON, heap)
      [] OTHER -> FailingCredentialProducerApply(vc, dataJSON, heap)

(* What a call of CreateCustomCredential produced: accepted and applied     *)
(* list, in call order, the producer indices Accept and Apply were called   *)
(* on.                                                                      *)
CustomResult(status, ref, err, accepted, applied, heap) ==
    [out |-> [status |-> status, ref |-> ref, err |-> err,
              accepted |-> accepted, applied |-> applied],
     heap |-> heap]

CustomNotCalled ==
    [status |-> "none", ref |-> Nil, err |-> NoError, accepted |-> <<>>,
     applied |-> <<>>]

RECURSIVE ProducerLoop(_, _, _, _, _, _)

(* Step 2 and 3 of Resolve: the producers in the caller's order from index  *)
(* i; the first that accepts is applied and decides the call, and the base  *)
(* credential is the result when none accepts.                              *)
ProducerLoop(vcBase, dataJSON, prods, i, heap, accepted) ==
    IF i > Len(prods)
    THEN CustomResult("ok", Ptr(Reference(0, Object("Credential", vcBase, "", "", ""))),
                      NoError, accepted, <<>>, heap)
    ELSE IF Accept(prods[i], vcBase)
    THEN LET res == Apply(prods[i], vcBase, dataJSON, heap) IN
         IF IsError(res.err)
         THEN CustomResult("error", Nil, Wrap("apply credential extension", res.err),
                           Append(accepted, i), <<i>>, res.heap)
         ELSE CustomResult("ok", res.ref, NoError, Append(accepted, i), <<i>>, res.heap)
    ELSE ProducerLoop(vcBase, dataJSON, prods, i + 1, heap, Append(accepted, i))

RECURSIVE firstAccepting(_, _, _)

(* The index of the first producer, from index i, that accepts the base     *)
(* credential; 0 when none does.                                            *)
firstAccepting(vcBase, prods, i) ==
    IF i > Len(prods) THEN 0
    ELSE IF Accept(prods[i], vcBase) THEN i
    ELSE firstAccepting(vcBase, prods, i + 1)

(* Resolve of the specification, CreateCustomCredential in the package. *)
CreateCustomCredential(dataJSON, prods, heap) ==
    LET parsed == ParseCredential(dataJSON) IN
    IF ~parsed.ok
    THEN CustomResult("error", Nil,
                      Wrap("build base verifiable credential",
                           Errorf("credential is not valid", "", "", <<>>, <<>>)),
                      <<>>, <<>>, heap)
    ELSE ProducerLoop(parsed.vc, dataJSON, prods, 1, heap, <<>>)

-----------------------------------------------------------------------------
(* The inputs CreateCustomCredential is exercised on. *)

ProducerSet ==
    {[kind |-> "Cred1", inst |-> 1],
     [kind |-> "Cred2Producer", inst |-> 0],
     [kind |-> "FailingCredentialProducer", inst |-> 0]}

ProducerLists == SeqsUpTo(ProducerSet, MaxProducers)

TypesSet ==
    {<<"VerifiableCredential">>,
     <<"VerifiableCredential", "CredType1">>,
     <<"VerifiableCredential", "CredType2">>,
     <<"VerifiableCredential", "CredType1", "CredType2">>}

(* A custom member of the credential: absent, a string, or a number. *)
CustomMemberSet(str) == {<<>>, <<JStr(str)>>, <<JNum>>}

ExtendedCredential(types, c1, c2) ==
    LET subject == JObj([k \in {"id", "s1", "s2"} |->
                           CASE k = "id" -> JStr("did:example:ebfeb1f712ebc6f1c276e12ec21")
                             [] k = "s1" -> JStr("custom subject 1")
                             [] OTHER -> JStr("custom subject 2")])
        keys == {"@context", "id", "type", "issuer", "credentialSubject"}
                \cup (IF c1 = <<>> THEN {} ELSE {"c1"})
                \cup (IF c2 = <<>> THEN {} ELSE {"c2"})
    IN  JObj([k \in keys |->
                CASE k = "@context" -> JStrings(<<W3CContext>>)
                  [] k = "id" -> JStr("http://example.edu/credentials/1872")
                  [] k = "type" -> JStrings(types)
                  [] k = "issuer" -> JStr("did:example:76e12ec712ebc6f1c221ebfeb1f")
                  [] k = "credentialSubject" -> subject
                  [] k = "c1" -> c1[1]
                  [] OTHER -> c2[1]])

VCDataSet ==
    {ExtendedCredential(types, c1, c2) :
        types \in TypesSet,
        c1 \in CustomMemberSet("custom field 1"),
        c2 \in CustomMemberSet("custom field 2")}
    \cup {CredJunk}

-----------------------------------------------------------------------------
(* Package packager: the packer registry of the base packager.             *)

(* A packer.Packer: name tells the objects apart, enc is what              *)
(* EncodingType() returns, and opens says whether its Unpack succeeds.      *)
PackerUnpack(pack, message) ==
    IF pack.opens
    THEN [err |-> NoError, bytes |-> <<pack.name, message.payload>>]
    ELSE [err |-> Errorf("failed to unpack", "", "", <<>>, <<>>), bytes |-> <<>>]

(* Every packer replaces the one registered for its encoding type. *)
addPackerOverwrite(bp, pack) ==
    [bp EXCEPT !.inboundPackers = MapPut(@, pack.enc, pack)]

(* addPacker: registers pack for its encoding type unless the type has a   *)
(* packer already.                                                         *)
addPacker(bp, pack) ==
    IF pack.enc \notin DOMAIN bp.inboundPackers
    THEN [bp EXCEPT !.inboundPackers = MapPut(@, pack.enc, pack)]
    ELSE bp

RECURSIVE addInboundPackers(_, _, _)

(* The loop of New over ctx.InboundPackers() from index i. *)
addInboundPackers(bp, inbound, i) ==
    IF i > Len(inbound) THEN bp
    ELSE addInboundPackers(addPacker(bp, inbound[i]), inbound, i + 1)

NewNotCalled == [status |-> "none", packager |-> Nil, err |-> NoError]

(* New: [status, packager, err]. *)
New(ctx) ==
    LET basePackager == addInboundPackers([packer |-> Nil, inboundPackers |-> EmptyMap],
                                          ctx.InboundPackers, 1)
    IN  IF IsNil(ctx.Packer)
        THEN [status |-> "error", packager |-> Nil,
              err |-> Errorf("need outbound packer to initialize packager",
                             "", "", <<>>, <<>>)]
        ELSE [status |-> "ok",
              packager |-> Ptr(addPacker([basePackager EXCEPT !.packer = ctx.Packer],
                                         Deref(ctx.Packer))),
              err |-> NoError]

(* getEncodingType: the envelope is parsed, its protected member decoded   *)
(* as base64 (URL encoding, padded or raw) and parsed as the header, whose *)
(* typ member is the encoding type.  A message says how far it decodes:    *)
(* envelope and header are whether the two JSON texts parse, base64 is     *)
(* "padded", "raw" or "bad".                                               *)
getEncodingType(message) ==
    IF ~message.envelope
    THEN [err |-> Errorf("parse envelope", "", "", <<>>, <<>>), typ |-> ""]
    ELSE IF message.base64 \notin {"padded", "raw"}
    THEN [err |-> Errorf("decode header", "", "", <<>>, <<>>), typ |-> ""]
    ELSE IF ~message.header
    THEN [err |-> Errorf("parse header", "", "", <<>>, <<>>), typ |-> ""]
    ELSE [err |-> NoError, typ |-> message.typ]

UnpackNotCalled ==
    [status |-> "none", envelope |-> Nil, err |-> NoError, by |-> Nil]

(* UnpackMessage: [status, envelope, err, by], by being the packer whose   *)
(* Unpack was called.                                                      *)
UnpackMessage(bp, message) ==
    LET enc == getEncodingType(message) IN
    IF IsError(enc.err)
    THEN [status |-> "error", envelope |-> Nil,
          err |-> Wrap("getEncodingType", enc.err), by |-> Nil]
    ELSE IF enc.typ \notin DOMAIN bp.inboundPackers
    THEN [status |-> "error", envelope |-> Nil,
          err |-> Errorf("message Type not recognized", "", "", <<>>, <<>>),
          by |-> Nil]
    ELSE LET pack == bp.inboundPackers[enc.typ]
             res == PackerUnpack(pack, message)
         IN  IF IsError(res.err)
             THEN [status |-> "error", envelope |-> Nil,
                   err |-> Wrap("unpack", res.err), by |-> Ptr(pack)]
             ELSE [status |-> "ok", envelope |-> Ptr([Message |-> res.bytes]),
                   err |-> NoError, by |-> Ptr(pack)]

(* The inputs of the packager: providers whose inbound packers are packers *)
(* and whose outbound packer may be nil, and messages.                     *)
EncodingTypeSet == {"JWM/1.0", "didcomm-envelope-enc"}

PackerSet == [name : {"A", "B"}, enc : EncodingTypeSet, opens : BOOLEAN]

ProviderSet ==
    [InboundPackers : SeqsUpTo(PackerSet, MaxInboundPackers),
     Packer : {Nil} \cup {Ptr(pack) : pack \in PackerSet}]

WellFormedMessage(typ) ==
    [envelope |-> TRUE, base64 |-> "padded", header |-> TRUE, typ |-> typ,
     payload |-> "msg"]

MessageSet ==
    {WellFormedMessage(typ) : typ \in EncodingTypeSet \cup {"", "unknown"}}
    \cup {[WellFormedMessage("JWM/1.0") EXCEPT !.base64 = "raw"],
          [WellFormedMessage("JWM/1.0") EXCEPT !.envelope = FALSE],
          [WellFormedMessage("JWM/1.0") EXCEPT !.base64 = "bad"],
          [WellFormedMessage("JWM/1.0") EXCEPT !.header = FALSE]}

(* The inputs of repeated calls: pairs of a definition and a presentation  *)
(* for Match (a match, an unknown id, a descriptor without Schema), and     *)
(* bytes for CreateCustomCredential (a CredType1 credential without and     *)
(* with its custom member, one whose custom member is no string, one of     *)
(* both types, a CredType2 credential, and bytes that are no credential).   *)
RunPresentation(id, path) ==
    [Context |-> GoodContext, Type |-> GoodType, credentials |-> <<CredA, CredB>>,
     CustomFields |->
        [k \in {submissionProperty} |->
            JObj([j \in {descriptorMapProperty} |-> JArr(<<MappingEntry(id, path)>>)])]]

RunDefinition(schema) == [InputDescriptors |-> <<[ID |-> "d1", Schema |-> schema]>>]

RunMatchInputSet ==
    {[definition |-> RunDefinition(Ptr([URI |-> <<"u1">>])), vp |-> RunPresentation("d1", P0)],
     [definition |-> RunDefinition(Ptr([URI |-> <<"u2">>])), vp |-> RunPresentation("d1", P1)],
     [definition |-> RunDefinition(Ptr([URI |-> <<"u1">>])), vp |-> RunPresentation("dX", P0)],
     [definition |-> RunDefinition(Nil), vp |-> RunPresentation("d1", P0)]}

RunDataSet ==
    {ExtendedCredential(<<"VerifiableCredential", "CredType1">>, <<>>, <<>>),
     ExtendedCredential(<<"VerifiableCredential", "CredType1">>,
                        <<JStr("custom field 1")>>, <<>>),
     ExtendedCredential(<<"VerifiableCredential", "CredType1">>, <<JNum>>, <<>>),
     ExtendedCredential(<<"VerifiableCredential", "CredType1", "CredType2">>,
                        <<JStr("another custom field 1")>>, <<>>),
     ExtendedCredential(<<"VerifiableCredential", "CredType2">>, <<>>,
                        <<JStr("custom field 2")>>),
     CredJunk}

(* The record of a call that returned: its operation and input, and what it *)
(* returned; value is the object a returned pointer pointed to when the     *)
(* call returned.                                                           *)
MatchRun(input, out) ==
    [op |-> "Match", input |-> input, status |-> out.status, err |-> out.err,
     result |-> out.result, value |-> Nil]

ResolveRun(dataJSON, out, heap) ==
    [op |-> "Resolve", input |-> dataJSON, status |-> out.status, err |-> out.err,
     result |-> out.ref,
     value |-> IF IsNil(out.ref) THEN Nil
               ELSE IF Deref(out.ref).ref # 0 THEN Ptr(heap[Deref(out.ref).ref])
               ELSE Ptr(Deref(out.ref).val)]

-----------------------------------------------------------------------------
(* The state machines.  Match: the inputs are drawn at the start and the    *)
(* call stores what it produced.  CreateCustomCredential: the producer list *)
(* is drawn at the start with a fresh Cred1 object, and the caller makes    *)
(* up to MaxCalls calls with it, one after the other.                       *)

MatchIdle ==
    /\ definition = [InputDescriptors |-> <<>>]
    /\ vp = [Context |-> <<>>, Type |-> <<>>, credentials |-> <<>>,
             CustomFields |-> EmptyMap]
    /\ matchOut = NotCalled

(* Two goroutines make calls. *)
WorkerSet == {"g1", "g2"}

WorkerIdle ==
    [pc |-> "idle", op |-> "", input |-> JNull, vc |-> NoCredential, inst |-> 0]

RunsIdle ==
    /\ runs = <<>>
    /\ workers = [w \in WorkerSet |-> WorkerIdle]

PackagerIdle ==
    /\ provider = [InboundPackers |-> <<>>, Packer |-> Nil]
    /\ packager = Nil
    /\ newOut = NewNotCalled
    /\ encMessage = WellFormedMessage("")
    /\ unpackOut = UnpackNotCalled

CustomIdle ==
    /\ producers = <<>>
    /\ cred1 = [inst \in {1} |-> ZeroObject("Cred1")]
    /\ vcData = JNull
    /\ customOut = CustomNotCalled
    /\ calls = 0

InitMatch ==
    /\ definition \in DefinitionSet
    /\ vp \in PresentationSet
    /\ matchOut = NotCalled
    /\ CustomIdle
    /\ PackagerIdle
    /\ RunsIdle

CallMatch ==
    /\ matchOut.status = "none"
    /\ matchOut' = Match(definition, vp)
    /\ UNCHANGED <<definition, vp, customVars, packagerVars, runVars>>

NextMatch == CallMatch

SpecMatch == InitMatch /\ [][NextMatch]_vars

InitCustom ==
    /\ MatchIdle
    /\ producers \in ProducerLists
    /\ cred1 = [inst \in {1} |-> ZeroObject("Cred1")]
    /\ vcData = JNull
    /\ customOut = CustomNotCalled
    /\ calls = 0
    /\ PackagerIdle
    /\ RunsIdle

CallCreateCustomCredential ==
    /\ calls < MaxCalls
    /\ \E dataJSON \in VCDataSet :
          LET res == CreateCustomCredential(dataJSON, producers, cred1) IN
              /\ vcData' = dataJSON
              /\ customOut' = res.out
              /\ cred1' = res.heap
    /\ calls' = calls + 1
    /\ UNCHANGED <<producers, matchVars, packagerVars, runVars>>

NextCustom == CallCreateCustomCredential

SpecCustom == InitCustom /\ [][NextCustom]_vars

(* The packager: New is called once on the provider, then UnpackMessage on *)
(* the packager it returned, any number of times.                          *)
InitPackager ==
    /\ MatchIdle
    /\ CustomIdle
    /\ provider \in ProviderSet
    /\ packager = Nil
    /\ newOut = NewNotCalled
    /\ encMessage = WellFormedMessage("")
    /\ unpackOut = UnpackNotCalled
    /\ RunsIdle

CallNew ==
    /\ newOut.status = "none"
    /\ newOut' = New(provider)
    /\ packager' = New(provider).packager
    /\ UNCHANGED <<provider, encMessage, unpackOut, matchVars, customVars, runVars>>

CallUnpackMessage ==
    /\ ~IsNil(packager)
    /\ \E message \in MessageSet :
          /\ encMessage' = message
          /\ unpackOut' = UnpackMessage(Deref(packager), message)
    /\ UNCHANGED <<provider, packager, newOut, matchVars, customVars, runVars>>

NextPackager == CallNew \/ CallUnpackMessage

SpecPackager == InitPackager /\ [][NextPackager]_vars

(* Repeated calls, one after the other, with one producer list: each call   *)
(* is made on inputs of its own and is recorded when it returns.            *)
InitRuns ==
    /\ MatchIdle
    /\ PackagerIdle
    /\ producers \in ProducerLists
    /\ cred1 = [inst \in {1} |-> ZeroObject("Cred1")]
    /\ vcData = JNull
    /\ customOut = CustomNotCalled
    /\ calls = 0
    /\ RunsIdle

RunMatch ==
    /\ Len(runs) < MaxRuns
    /\ \E input \in RunMatchInputSet :
          runs' = Append(runs, MatchRun(input, Match(input.definition, input.vp)))
    /\ UNCHANGED <<matchVars, customVars, packagerVars, workers>>

RunResolve ==
    /\ Len(runs) < MaxRuns
    /\ \E dataJSON \in RunDataSet :
          LET res == CreateCustomCredential(dataJSON, producers, cred1) IN
              /\ runs' = Append(runs, ResolveRun(dataJSON, res.out, res.heap))
              /\ cred1' = res.heap
    /\ UNCHANGED <<matchVars, producers, vcData, customOut, calls, packagerVars, workers>>

NextRuns == RunMatch \/ RunResolve

SpecRuns == InitRuns /\ [][NextRuns]_vars

(* Concurrent calls with one producer list: two goroutines make calls, each *)
(* on inputs of its own.  A call of Match reads its arguments only and is   *)
(* recorded when it ends.  A call of CreateCustomCredential parses the      *)
(* bytes and asks the producers in order (both read the call's own values   *)
(* only); when the producer that accepts is a Cred1, its Apply writes the   *)
(* object of the producer in two steps, json.Unmarshal(dataJSON, c1) and    *)
(* c1.Base = vc, and returns a pointer to it.                               *)
ActiveWorkers == {w \in WorkerSet : workers[w].pc # "idle"}

CallsStarted == Len(runs) + Cardinality(ActiveWorkers)

InitConcurrent == InitRuns

MatchBegin(w) ==
    /\ workers[w].pc = "idle"
    /\ CallsStarted < MaxRuns
    /\ \E input \in RunMatchInputSet :
          workers' = [workers EXCEPT ![w] =
                         [pc |-> "matching", op |-> "Match", input |-> input,
                          vc |-> NoCredential, inst |-> 0]]
    /\ UNCHANGED <<matchVars, customVars, packagerVars, runs>>

MatchEnd(w) ==
    /\ workers[w].pc = "matching"
    /\ runs' = Append(runs, MatchRun(workers[w].input,
                                     Match(workers[w].input.definition,
                                           workers[w].input.vp)))
    /\ workers' = [workers EXCEPT ![w] = WorkerIdle]
    /\ UNCHANGED <<matchVars, customVars, packagerVars>>

ResolveBegin(w) ==
    /\ workers[w].pc = "idle"
    /\ CallsStarted < MaxRuns
    /\ \E dataJSON \in RunDataSet :
          LET parsed == ParseCredential(dataJSON)
              f == IF parsed.ok THEN firstAccepting(parsed.vc, producers, 1) ELSE 0
          IN  workers' = [workers EXCEPT ![w] =
                  IF f # 0 /\ producers[f].kind = "Cred1"
                  THEN [pc |-> "unmarshal", op |-> "Resolve", input |-> dataJSON,
                        vc |-> parsed.vc, inst |-> producers[f].inst]
                  ELSE [pc |-> "returning", op |-> "Resolve", input |-> dataJSON,
                        vc |-> parsed.vc, inst |-> 0]]
    /\ UNCHANGED <<matchVars, customVars, packagerVars, runs>>

(* Cred1.Apply, line 101: json.Unmarshal(dataJSON, c1). *)
Cred1Unmarshal(w) ==
    /\ workers[w].pc = "unmarshal"
    /\ LET dec == UnmarshalCustom(workers[w].input, cred1[workers[w].inst], "s1", "c1") IN
          /\ cred1' = [cred1 EXCEPT ![workers[w].inst] = dec.obj]
          /\ workers' = [workers EXCEPT ![w].pc = IF dec.ok THEN "setBase" ELSE "failed"]
    /\ UNCHANGED <<matchVars, producers, vcData, customOut, calls, packagerVars, runs>>

(* Cred1.Apply, line 106: c1.Base = vc. *)
Cred1SetBase(w) ==
    /\ workers[w].pc = "setBase"
    /\ cred1' = [cred1 EXCEPT ![workers[w].inst].Base = workers[w].vc]
    /\ workers' = [workers EXCEPT ![w].pc = "return"]
    /\ UNCHANGED <<matchVars, producers, vcData, customOut, calls, packagerVars, runs>>

(* The call returns: what no Cred1 takes part in is computed from the       *)
(* call's own values; a Cred1 that was applied is returned as it is now.    *)
ResolveEnd(w) ==
    /\ workers[w].pc \in {"returning", "failed", "return"}
    /\ LET me == workers[w]
           out == CASE me.pc = "returning" ->
                         CreateCustomCredential(me.input, producers, cred1).out
                    [] me.pc = "failed" ->
                         [status |-> "error", ref |-> Nil,
                          err |-> Wrap("apply credential extension", UnmarshalError),
                          accepted |-> <<>>, applied |-> <<>>]
                    [] OTHER ->
                         [status |-> "ok",
                          ref |-> Ptr(Reference(me.inst, cred1[me.inst])),
                          err |-> NoError, accepted |-> <<>>, applied |-> <<>>]
       IN  runs' = Append(runs, ResolveRun(me.input, out, cred1))
    /\ workers' = [workers EXCEPT ![w] = WorkerIdle]
    /\ UNCHANGED <<matchVars, customVars, packagerVars>>

NextConcurrent ==
    \E w \in WorkerSet :
        \/ MatchBegin(w)
        \/ MatchEnd(w)
        \/ ResolveBegin(w)
        \/ Cred1Unmarshal(w)
        \/ Cred1SetBase(w)
        \/ ResolveEnd(w)

SpecConcurrent == InitConcurrent /\ [][NextConcurrent]_vars

-----------------------------------------------------------------------------
(* Properties of Match.  The predicates below describe the inputs of the    *)
(* call in the state; they read the inputs only, or single helper           *)
(* functions, never the result of Match.                                    *)

Range(seq) == {seq[i] : i \in DOMAIN seq}

Called == matchOut.status # "none"

HasSubmissionContext == PresentationSubmissionJSONLDContext \in Range(vp.Context)

HasSubmissionType == PresentationSubmissionJSONLDType \in Range(vp.Type)

HasSubmissionObject ==
    /\ submissionProperty \in DOMAIN vp.CustomFields
    /\ vp.CustomFields[submissionProperty].t = "object"

HasDescriptorMapArray ==
    /\ HasSubmissionObject
    /\ descriptorMapProperty \in DOMAIN vp.CustomFields[submissionProperty].o
    /\ vp.CustomFields[submissionProperty].o[descriptorMapProperty].t = "array"

RawEntries ==
    IF HasDescriptorMapArray
    THEN vp.CustomFields[submissionProperty].o[descriptorMapProperty].a
    ELSE <<>>

(* The element can be deserialized into a descriptor mapping. *)
Decodable(node) ==
    \/ node.t = "null"
    \/ /\ node.t = "object"
       /\ \A k \in {"id", "path"} \cap DOMAIN node.o : node.o[k].t \in {"string", "null"}

Extractable == HasDescriptorMapArray /\ \A i \in DOMAIN RawEntries : Decodable(RawEntries[i])

(* The envelope check and the submission extraction let the call through. *)
PipelineOpen == Called /\ HasSubmissionContext /\ HasSubmissionType /\ Extractable

NodeField(node, k) ==
    IF node.t = "object" /\ k \in DOMAIN node.o /\ node.o[k].t = "string"
    THEN node.o[k].s ELSE ""

EntryID(i) == NodeField(RawEntries[i], "id")

EntryPath(i) == NodeField(RawEntries[i], "path")

DefinitionIDs == {definition.InputDescriptors[k].ID : k \in DOMAIN definition.InputDescriptors}

FirstDescriptor(id) ==
    definition.InputDescriptors[
        CHOOSE k \in DOMAIN definition.InputDescriptors :
            /\ definition.InputDescriptors[k].ID = id
            /\ \A j \in 1..(k - 1) : definition.InputDescriptors[j].ID # id]

Selected(i) == selectByPath(TypelessVP(vp), EntryPath(i))

(* The gate a descriptor_map element stops at when it is looked at on its   *)
(* own, against the document doc: "nil" (a null element), "unknown" (a),    *)
(* "select" (b, c), "noschema" (the descriptor has no Schema), "mismatch"   *)
(* (d), or "pass".                                                          *)
GateOfNode(node, doc) ==
    IF node.t = "null" THEN "nil"
    ELSE IF NodeField(node, "id") \notin DefinitionIDs THEN "unknown"
    ELSE LET sel == selectByPath(doc, NodeField(node, "path"))
             schema == FirstDescriptor(NodeField(node, "id")).Schema
         IN  IF IsError(sel.err) THEN "select"
             ELSE IF IsNil(schema) THEN "noschema"
             ELSE IF Range(sel.vc.Context) \cap Range(Deref(schema).URI) = {}
                  THEN "mismatch"
             ELSE "pass"

Gates ==
    LET entries == RawEntries
        doc == TypelessVP(vp)
    IN  [i \in DOMAIN entries |-> GateOfNode(entries[i], doc)]

GateOf(i) == Gates[i]

(* The first entry, in descriptor-map order, that does not pass its gates:  *)
(* every entry before it passes, so the loop gets to it.  0 when every      *)
(* entry passes.                                                            *)
FirstStopOf(gates) ==
    LET stops == {i \in DOMAIN gates : gates[i] # "pass"}
    IN  IF stops = {} THEN 0 ELSE CHOOSE i \in stops : \A j \in stops : i <= j

FirstStop == FirstStopOf(Gates)

AllPass == FirstStop = 0

MappedIDs == {EntryID(i) : i \in DOMAIN RawEntries}

MissingDescriptors ==
    {k \in DOMAIN definition.InputDescriptors :
        definition.InputDescriptors[k].ID \notin MappedIDs}

FirstMissingID ==
    definition.InputDescriptors[
        CHOOSE k \in MissingDescriptors : \A j \in MissingDescriptors : k <= j].ID

UnknownIDError(id) ==
    Errorf("an descriptor_map ID was found that did not match the id property of any input descriptor",
           id, "", <<>>, <<>>)

MismatchError(i) ==
    Errorf("input descriptor id requires schema uri which is not in vc context",
           EntryID(i), "", Deref(FirstDescriptor(EntryID(i)).Schema).URI,
           Selected(i).vc.Context)

(* C1 (coverage, P1): when Match returns a result mapping, every            *)
(* InputDescriptor id of the definition is a key of it; and when every      *)
(* mapping was processed (all pass their gates) and some descriptor id has  *)
(* no mapping, Match fails with "failed submission requirements: no         *)
(* credential provided for input descriptor <id>", <id> being the first     *)
(* missing id in definition order, and returns no mapping.                  *)
CoverageP1 ==
    /\ matchOut.status = "ok" =>
          \A k \in DOMAIN definition.InputDescriptors :
              definition.InputDescriptors[k].ID \in DOMAIN Deref(matchOut.result)
    /\ (PipelineOpen /\ AllPass /\ MissingDescriptors # {}) =>
          /\ matchOut.status = "error"
          /\ IsNil(matchOut.result)
          /\ matchOut.err =
                Wrap("failed submission requirements",
                     Errorf("no credential provided for input descriptor",
                            FirstMissingID, "", <<>>, <<>>))

(* Match returned a mapping for a definition with two different ids. *)
CoverageP1Witness ==
    /\ matchOut.status = "ok"
    /\ Len(definition.InputDescriptors) >= 2
    /\ Cardinality(DefinitionIDs) >= 2

(* C2 (schema gate, P2): every credential of a mapping returned by Match    *)
(* shares a context element with the schema URIs of its descriptor (the     *)
(* first descriptor of the definition with that id); and a mapping the loop *)
(* gets to, whose credential is resolved and shares no context element      *)
(* with the schema URIs of its descriptor, makes Match fail with the        *)
(* schema-mismatch error naming the descriptor id and both sequences.       *)
SchemaGateP2 ==
    /\ matchOut.status = "ok" =>
          \A id \in DOMAIN Deref(matchOut.result) :
              /\ ~IsNil(FirstDescriptor(id).Schema)
              /\ Range(Deref(matchOut.result)[id].Context)
                    \cap Range(Deref(FirstDescriptor(id).Schema).URI) # {}
    /\ PipelineOpen =>
          LET gates == Gates
              i == FirstStopOf(gates)
          IN  (i # 0 /\ gates[i] = "mismatch") =>
                  /\ matchOut.status = "error"
                  /\ IsNil(matchOut.result)
                  /\ matchOut.err = MismatchError(i)

(* The second mapping resolves a credential outside its descriptor's schema *)
(* after the first mapping was accepted.                                    *)
SchemaGateP2Witness ==
    /\ PipelineOpen
    /\ Len(RawEntries) >= 2
    /\ GateOf(1) = "pass"
    /\ GateOf(2) = "mismatch"
    /\ matchOut.status = "error"

(* C3 (envelope check): a presentation whose context sequence lacks the     *)
(* presentation-submission context, or whose type sequence lacks the        *)
(* presentation-submission type, makes Match fail with the corresponding    *)
(* "input verifiable presentation must have json-ld ..." error and a nil    *)
(* mapping, whatever the definition and the descriptor map are; nothing is  *)
(* resolved.                                                                *)
EnvelopeCheck ==
    (Called /\ ~(HasSubmissionContext /\ HasSubmissionType)) =>
        /\ matchOut.status = "error"
        /\ IsNil(matchOut.result)
        /\ matchOut.resolved = <<>>
        /\ matchOut.err =
              IF ~HasSubmissionContext
              THEN Errorf("input verifiable presentation must have json-ld context",
                          "", "", <<>>, <<>>)
              ELSE Errorf("input verifiable presentation must have json-ld type",
                          "", "", <<>>, <<>>)

(* Only the type is missing; the submission would otherwise match. *)
EnvelopeCheckWitness ==
    /\ Called
    /\ HasSubmissionContext
    /\ ~HasSubmissionType
    /\ Extractable
    /\ Len(RawEntries) >= 1
    /\ AllPass
    /\ MissingDescriptors = {}
    /\ matchOut.status = "error"

(* C4 (unknown descriptor id): a descriptor map with an entry whose id is   *)
(* the id of no InputDescriptor never yields a result mapping; and when the *)
(* loop gets to such an entry (the envelope check and the extraction        *)
(* passed, every entry before it passes its gates), Match fails with the    *)
(* unknown-descriptor-id error naming that id, without resolving the        *)
(* entry, whatever the other entries and the coverage are.                  *)
UnknownDescriptorID ==
    /\ (Called /\ \E i \in DOMAIN RawEntries :
                     RawEntries[i].t = "object" /\ EntryID(i) \notin DefinitionIDs) =>
          /\ matchOut.status \in {"error", "panic"}
          /\ IsNil(matchOut.result)
    /\ PipelineOpen =>
          LET gates == Gates
              i == FirstStopOf(gates)
          IN  (i # 0 /\ gates[i] = "unknown") =>
                  /\ matchOut.status = "error"
                  /\ IsNil(matchOut.result)
                  /\ matchOut.err = UnknownIDError(EntryID(i))
                  /\ i \notin Range(matchOut.resolved)

(* A valid entry covers every descriptor of the definition, and the entry   *)
(* after it has an unknown id.                                              *)
UnknownDescriptorIDWitness ==
    /\ PipelineOpen
    /\ Len(RawEntries) >= 2
    /\ GateOf(1) = "pass"
    /\ GateOf(2) = "unknown"
    /\ DefinitionIDs = {EntryID(1)}
    /\ matchOut.status = "error"

(* C5 (submission extraction): once the envelope check passed, a            *)
(* presentation without a presentation_submission object, or whose          *)
(* submission has no descriptor_map array, or whose array holds an element  *)
(* that cannot be deserialized into a descriptor mapping, makes Match fail  *)
(* with "failed to parse descriptor map: ..." and a nil mapping, before any *)
(* mapping is resolved.                                                     *)
SubmissionExtraction ==
    (Called /\ HasSubmissionContext /\ HasSubmissionType /\ ~Extractable) =>
        /\ matchOut.status = "error"
        /\ IsNil(matchOut.result)
        /\ matchOut.resolved = <<>>
        /\ matchOut.err =
              Wrap("failed to parse descriptor map",
                   Errorf(IF ~HasSubmissionObject
                          THEN "missing 'presentation_submission' on verifiable presentation"
                          ELSE IF ~HasDescriptorMapArray
                          THEN "missing 'descriptor_map' on verifiable presentation"
                          ELSE "failed to unmarshal descriptor map",
                          "", "", <<>>, <<>>))

(* The array's second element cannot be deserialized; the first one could   *)
(* have been resolved.                                                      *)
SubmissionExtractionWitness ==
    /\ Called
    /\ HasSubmissionContext
    /\ HasSubmissionType
    /\ Len(RawEntries) >= 2
    /\ Decodable(RawEntries[1])
    /\ GateOf(1) = "pass"
    /\ ~Decodable(RawEntries[2])
    /\ matchOut.status = "error"

(* The error entry i produces when it fails at gate (a), (b), (c) or (d). *)
EntryErrorAt(i, gate) ==
    CASE gate = "unknown" -> UnknownIDError(EntryID(i))
      [] gate = "select" ->
            Wrap("failed to select vc from submission", Selected(i).err)
      [] gate = "mismatch" -> MismatchError(i)
      [] OTHER -> NoError

EntryError(i) == EntryErrorAt(i, GateOf(i))

FailingGates == {"unknown", "select", "mismatch"}

FailingEntries ==
    LET gates == Gates IN {i \in DOMAIN gates : gates[i] \in FailingGates}

(* C6 (deterministic first error): entries are resolved in descriptor-map   *)
(* order; when the first entry that does not pass is one that fails at a    *)
(* per-mapping gate, the error Match returns is that entry's error, also    *)
(* when later entries would fail too, and no entry after it is resolved.    *)
DeterministicFirstError ==
    /\ \A a, b \in DOMAIN matchOut.resolved :
          a < b => matchOut.resolved[a] < matchOut.resolved[b]
    /\ PipelineOpen =>
          LET gates == Gates
              f == FirstStopOf(gates)
          IN  (f # 0 /\ gates[f] \in FailingGates) =>
                  /\ matchOut.status = "error"
                  /\ matchOut.err = EntryErrorAt(f, gates[f])
                  /\ \A k \in Range(matchOut.resolved) : k <= f

(* Two entries fail at different gates; the error is the first one's. *)
DeterministicFirstErrorWitness ==
    /\ PipelineOpen
    /\ Cardinality(FailingEntries) >= 2
    /\ \E i, j \in FailingEntries : i < j /\ EntryError(i) # EntryError(j)
    /\ matchOut.status = "error"

LastEntryWith(id) ==
    CHOOSE i \in DOMAIN RawEntries :
        /\ EntryID(i) = id
        /\ \A j \in DOMAIN RawEntries : EntryID(j) = id => j <= i

(* C7 (duplicate mapping ids): when every entry of the descriptor map       *)
(* passes its gates, entries that share an id included, Match succeeds as   *)
(* soon as every descriptor is covered, the keys of the result are the ids  *)
(* of the entries, and each id holds the credential resolved by the last    *)
(* entry with that id in descriptor-map order.                              *)
DuplicateMappingIDs ==
    (PipelineOpen /\ AllPass) =>
        /\ MissingDescriptors = {} => matchOut.status = "ok"
        /\ matchOut.status = "ok" =>
              /\ DOMAIN Deref(matchOut.result) = MappedIDs
              /\ \A id \in MappedIDs :
                    Deref(matchOut.result)[id] = Selected(LastEntryWith(id)).vc

(* Two entries with the same id resolve different credentials, and Match    *)
(* returns the later one.                                                   *)
DuplicateMappingIDsWitness ==
    /\ PipelineOpen
    /\ AllPass
    /\ matchOut.status = "ok"
    /\ \E i, j \in DOMAIN RawEntries :
          /\ i < j
          /\ EntryID(i) = EntryID(j)
          /\ Selected(i).vc # Selected(j).vc
          /\ Deref(matchOut.result)[EntryID(i)] = Selected(j).vc

-----------------------------------------------------------------------------
(* Properties of CreateCustomCredential (Resolve).  The predicates below    *)
(* describe the inputs of the last call.                                    *)

CustomCalled == customOut.status # "none"

BaseParses == ParseCredential(vcData).ok

BaseCredential == ParseCredential(vcData).vc

(* What each producer of the test accepts, from its documentation. *)
ProducerAccepts(producer, vc) ==
    CASE producer.kind = "Cred1" -> "CredType1" \in Range(vc.Types)
      [] producer.kind = "Cred2Producer" -> "CredType2" \in Range(vc.Types)
      [] OTHER -> TRUE

CustomKey(producer) == IF producer.kind = "Cred1" THEN "c1" ELSE "c2"

(* Apply of the producer can decode the bytes: the custom member it reads   *)
(* is absent or a string.  The failing producer never succeeds.             *)
ApplyCanSucceed(producer, dataJSON) ==
    /\ producer.kind \in {"Cred1", "Cred2Producer"}
    /\ \/ CustomKey(producer) \notin DOMAIN dataJSON.o
       \/ dataJSON.o[CustomKey(producer)].t = "string"

Accepting == {i \in DOMAIN producers : ProducerAccepts(producers[i], BaseCredential)}

FirstAccepting ==
    IF Accepting = {} THEN 0 ELSE CHOOSE i \in Accepting : \A j \in Accepting : i <= j

(* The object a returned value points to now. *)
ValueOf(reference) == IF reference.ref # 0 THEN cred1[reference.ref] ELSE reference.val

(* C8 (extension precedence, P3): when the base parse succeeds and some     *)
(* producer accepts, Apply is invoked on the lowest-index accepting         *)
(* producer and on no other, also when a later producer accepts too; when   *)
(* that Apply succeeds the call returns its result: an object of that       *)
(* producer's type that embeds the base credential and carries the custom   *)
(* field and subject field of the bytes.                                    *)
ExtensionPrecedenceP3 ==
    (CustomCalled /\ BaseParses /\ FirstAccepting # 0) =>
        LET f == FirstAccepting
            prod == producers[f]
        IN  /\ customOut.applied = <<f>>
            /\ ApplyCanSucceed(prod, vcData) =>
                  /\ customOut.status = "ok"
                  /\ customOut.err = NoError
                  /\ ~IsNil(customOut.ref)
                  /\ LET obj == ValueOf(Deref(customOut.ref)) IN
                        /\ obj.type = (IF prod.kind = "Cred1" THEN "Cred1" ELSE "Cred2")
                        /\ obj.Base = BaseCredential
                        /\ obj.SubjectField =
                              (IF prod.kind = "Cred1" THEN "custom subject 1"
                                                      ELSE "custom subject 2")
                        /\ CustomKey(prod) \in DOMAIN vcData.o =>
                              obj.CustomField = vcData.o[CustomKey(prod)].s

(* Two producers of different kinds accept the credential; the first one's  *)
(* object is returned.                                                      *)
ExtensionPrecedenceP3Witness ==
    /\ CustomCalled
    /\ BaseParses
    /\ customOut.status = "ok"
    /\ \E i, j \in Accepting : i < j /\ producers[i].kind # producers[j].kind
    /\ customOut.applied = <<FirstAccepting>>

(* C9 (first-accept-wins failure): when the first producer that accepts the *)
(* base credential fails in Apply, the call fails with the                  *)
(* extension-apply error wrapping the producer's error and returns no       *)
(* object; no later producer is applied and the base credential is not      *)
(* returned.                                                                *)
FirstAcceptWinsFailure ==
    (CustomCalled /\ BaseParses /\ FirstAccepting # 0
        /\ ~ApplyCanSucceed(producers[FirstAccepting], vcData)) =>
        /\ customOut.status = "error"
        /\ IsNil(customOut.ref)
        /\ customOut.applied = <<FirstAccepting>>
        /\ customOut.err =
              Wrap("apply credential extension",
                   IF producers[FirstAccepting].kind = "FailingCredentialProducer"
                   THEN Errorf("failed to apply credential extension", "", "", <<>>, <<>>)
                   ELSE UnmarshalError)

(* The first accepting producer fails and a later producer accepts the same *)
(* credential and could have produced it.                                   *)
FirstAcceptWinsFailureWitness ==
    /\ CustomCalled
    /\ BaseParses
    /\ customOut.status = "error"
    /\ \E j \in Accepting :
          /\ FirstAccepting < j
          /\ ApplyCanSucceed(producers[j], vcData)

(* C10 (fallback, P4): when the base parse succeeds and no producer of the  *)
(* list accepts (the empty list included), the call succeeds and returns    *)
(* the base credential itself, typed as *Credential; Accept was asked of    *)
(* every producer in order and Apply of none.                               *)
FallbackP4 ==
    (CustomCalled /\ BaseParses /\ Accepting = {}) =>
        /\ customOut.status = "ok"
        /\ customOut.err = NoError
        /\ customOut.ref = Ptr(Reference(0, Object("Credential", BaseCredential, "", "", "")))
        /\ customOut.applied = <<>>
        /\ customOut.accepted = [i \in 1..Len(producers) |-> i]

(* A non-empty producer list none of which accepts the credential. *)
FallbackP4Witness ==
    /\ CustomCalled
    /\ BaseParses
    /\ Len(producers) >= 2
    /\ Accepting = {}
    /\ customOut.status = "ok"

(* The raw bytes lack a mandatory member of a verifiable credential. *)
BaseRejected ==
    ~(/\ vcData.t = "object"
      /\ {"@context", "id", "type", "issuer"} \subseteq DOMAIN vcData.o)

(* C11 (base build failure): when the credential parser rejects the raw     *)
(* bytes, the call fails with the base-credential-build error wrapping the  *)
(* parser's error and returns no object, whatever the producer list; no     *)
(* producer is asked to Accept or Apply, also one that accepts everything.  *)
BaseBuildFailure ==
    (CustomCalled /\ BaseRejected) =>
        /\ customOut.status = "error"
        /\ IsNil(customOut.ref)
        /\ Len(customOut.err.chain) = 2
        /\ customOut.err.chain[1] = "build base verifiable credential"
        /\ customOut.accepted = <<>>
        /\ customOut.applied = <<>>

(* Rejected bytes with a producer list that holds the producer accepting    *)
(* every credential.                                                        *)
BaseBuildFailureWitness ==
    /\ CustomCalled
    /\ BaseRejected
    /\ customOut.status = "error"
    /\ \E i \in DOMAIN producers : producers[i].kind = "FailingCredentialProducer"

-----------------------------------------------------------------------------
(* Gate order of Match, read off the inputs. *)

(* The index a path expression selects in verifiableCredential; -1 for an   *)
(* expression that is no valid path.                                        *)
PathIndex(path) ==
    CASE path = "$.verifiableCredential[0]" -> 0
      [] path = "$.verifiableCredential[1]" -> 1
      [] OTHER -> -1

(* Why gate (b) or (c) stops entry i: the path is invalid, selects nothing, *)
(* or selects a node the credential parser rejects.                         *)
SelectFailure(i) ==
    LET idx == PathIndex(EntryPath(i)) IN
    IF idx < 0 THEN "failed to build new json path evaluator"
    ELSE IF idx + 1 > Len(vp.credentials) THEN "failed to evaluate json path"
    ELSE "failed to parse credential"

Fault == <<"fault">>

(* The messages of the error of the earliest gate the inputs violate, in    *)
(* the order envelope, extraction, per mapping (a)-(d), coverage: <<>> when *)
(* no gate is violated, Fault when the walk ends at an element the code     *)
(* cannot handle (a null element, a descriptor without Schema).             *)
EarliestFailure ==
    IF ~HasSubmissionContext
    THEN <<"input verifiable presentation must have json-ld context">>
    ELSE IF ~HasSubmissionType
    THEN <<"input verifiable presentation must have json-ld type">>
    ELSE IF ~HasSubmissionObject
    THEN <<"failed to parse descriptor map",
           "missing 'presentation_submission' on verifiable presentation">>
    ELSE IF ~HasDescriptorMapArray
    THEN <<"failed to parse descriptor map",
           "missing 'descriptor_map' on verifiable presentation">>
    ELSE IF ~Extractable
    THEN <<"failed to parse descriptor map", "failed to unmarshal descriptor map">>
    ELSE LET gates == Gates
             f == FirstStopOf(gates)
         IN  IF f # 0
             THEN CASE gates[f] = "unknown" ->
                         <<"an descriptor_map ID was found that did not match the id property of any input descriptor">>
                    [] gates[f] = "select" ->
                         <<"failed to select vc from submission", SelectFailure(f)>>
                    [] gates[f] = "mismatch" ->
                         <<"input descriptor id requires schema uri which is not in vc context">>
                    [] OTHER -> Fault
             ELSE IF MissingDescriptors # {}
             THEN <<"failed submission requirements",
                    "no credential provided for input descriptor">>
             ELSE <<>>

(* C14 (gate order): the gates are evaluated in the order envelope check,   *)
(* submission extraction, then per mapping (a) descriptor-id lookup,        *)
(* (b) path selection, (c) credential parse, (d) schema conformance, and    *)
(* the coverage check last.  An error Match returns is the error of the     *)
(* earliest gate the inputs violate, whatever later gates they violate      *)
(* too; an input whose earliest violated gate is one of these gives that    *)
(* error; and the unsatisfied-descriptor error is returned only when every  *)
(* mapping passed gates (a)-(d).                                            *)
GateOrder ==
    Called =>
        LET first == EarliestFailure IN
        /\ matchOut.status = "error" => matchOut.err.chain = first
        /\ first \notin {<<>>, Fault} =>
              /\ matchOut.status = "error"
              /\ IsNil(matchOut.result)
              /\ matchOut.err.chain = first
        /\ (matchOut.status = "error"
               /\ matchOut.err.chain[1] = "failed submission requirements") =>
              \A i \in DOMAIN RawEntries : GateOf(i) = "pass"

(* A mapping has both an unknown id and an invalid path, after a mapping    *)
(* that passes: the unknown-id error is the one reported.                   *)
GateOrderWitness ==
    /\ PipelineOpen
    /\ Len(RawEntries) >= 2
    /\ GateOf(1) = "pass"
    /\ EntryID(2) \notin DefinitionIDs
    /\ PathIndex(EntryPath(2)) < 0
    /\ matchOut.status = "error"
    /\ matchOut.err.id = EntryID(2)

-----------------------------------------------------------------------------
(* Totality of Match. *)

(* The loop gets to a mapping whose id is the id of a descriptor without    *)
(* Schema and whose path selects a credential that parses: every entry      *)
(* before it passes its gates.                                              *)
SchemalessMappingReached ==
    /\ PipelineOpen
    /\ FirstStop # 0
    /\ GateOf(FirstStop) = "noschema"

(* C15 (totality of Match), as stated: a call of Match ends with a result   *)
(* mapping or an error value; in particular it does so when the loop gets   *)
(* to a mapping whose descriptor has no Schema and whose credential is      *)
(* selected and parsed.  The code dereferences the absent Schema            *)
(* (inputDescriptor.Schema.URI, line 159) and the call ends in a run-time   *)
(* panic, so this does not hold.                                            *)
MatchTotality ==
    (Called /\ SchemalessMappingReached) => matchOut.status \in {"ok", "error"}

(* The call was made on such a mapping and ended without result and         *)
(* without error.                                                           *)
MatchTotalityWitness ==
    /\ Called
    /\ SchemalessMappingReached
    /\ matchOut.status = "panic"
    /\ IsNil(matchOut.result)
    /\ ~IsError(matchOut.err)

-----------------------------------------------------------------------------
(* Duplicate descriptor ids in the definition. *)

(* The positions of the descriptors that repeat the id of an earlier one. *)
LaterDuplicates ==
    {b \in DOMAIN definition.InputDescriptors :
        \E a \in 1..(b - 1) :
            definition.InputDescriptors[a].ID = definition.InputDescriptors[b].ID}

(* The schema URIs of the descriptor at position k; none without Schema. *)
URIsAt(k) ==
    LET schema == definition.InputDescriptors[k].Schema
    IN  IF IsNil(schema) THEN {} ELSE Range(Deref(schema).URI)

(* Entry i names a repeated id, and the context of its credential shares a  *)
(* URI with the first descriptor of that id and none with a later one.      *)
FitsFirstOnly(i) ==
    /\ GateOf(i) = "pass"
    /\ \E b \in LaterDuplicates :
          /\ definition.InputDescriptors[b].ID = EntryID(i)
          /\ Range(Selected(i).vc.Context) \cap URIsAt(b) = {}

(* The reverse: the credential shares no URI with the first descriptor of   *)
(* the id and one with a later descriptor of the id.                        *)
FitsLaterOnly(i) ==
    /\ GateOf(i) = "mismatch"
    /\ \E b \in LaterDuplicates :
          /\ definition.InputDescriptors[b].ID = EntryID(i)
          /\ Range(Selected(i).vc.Context) \cap URIsAt(b) # {}

(* C16 (duplicate descriptor ids): when descriptors of the definition       *)
(* share an id, a mapping with that id is checked against the schema URIs   *)
(* of the first such descriptor only.  A credential that fits the first and *)
(* not a later one is stored; a credential that fits a later one and not    *)
(* the first is rejected with the first descriptor's URIs in the error; and *)
(* one result entry under the id satisfies the coverage check for all the   *)
(* descriptors that carry it.                                               *)
DuplicateDescriptorIDs ==
    (PipelineOpen /\ LaterDuplicates # {}) =>
        LET gates == Gates
            f == FirstStopOf(gates)
        IN  /\ (f # 0 /\ FitsLaterOnly(f)) =>
                  /\ matchOut.status = "error"
                  /\ matchOut.err = MismatchError(f)
                  /\ matchOut.err.uri = Deref(FirstDescriptor(EntryID(f)).Schema).URI
            /\ (f = 0 /\ MissingDescriptors = {}) =>
                  /\ matchOut.status = "ok"
                  /\ DOMAIN Deref(matchOut.result) = MappedIDs
                  /\ DefinitionIDs \subseteq DOMAIN Deref(matchOut.result)
                  /\ \A i \in DOMAIN RawEntries :
                        i = LastEntryWith(EntryID(i)) =>
                            Deref(matchOut.result)[EntryID(i)] = Selected(i).vc

(* Two descriptors share the id and differ in their URIs; the one mapping   *)
(* of that id carries a credential that fits the first descriptor only, and *)
(* Match returns a single result entry.                                     *)
DuplicateDescriptorIDsWitness ==
    /\ PipelineOpen
    /\ Len(definition.InputDescriptors) = 2
    /\ LaterDuplicates = {2}
    /\ Len(RawEntries) = 1
    /\ FitsFirstOnly(1)
    /\ matchOut.status = "ok"
    /\ Cardinality(DOMAIN Deref(matchOut.result)) = 1

-----------------------------------------------------------------------------
(* Properties of the packager. *)

NewCalled == newOut.status # "none"

UnpackCalled == unpackOut.status # "none"

(* The packers in registration order: the inbound packers in list order,    *)
(* then the outbound packer.                                                *)
RegistrationOrder == provider.InboundPackers \o provider.Packer

(* The first packer of the registration order with the encoding type. *)
FirstRegistered(enc) ==
    RegistrationOrder[
        CHOOSE i \in DOMAIN RegistrationOrder :
            /\ RegistrationOrder[i].enc = enc
            /\ \A j \in 1..(i - 1) : RegistrationOrder[j].enc # enc]

RegisteredTypes == {RegistrationOrder[i].enc : i \in DOMAIN RegistrationOrder}

(* The message decodes down to its header. *)
HasEncodingType ==
    /\ encMessage.envelope
    /\ encMessage.base64 \in {"padded", "raw"}
    /\ encMessage.header

(* C17 (packer registry): New fails with "need outbound packer to           *)
(* initialize packager" and returns no packager when the provider's         *)
(* outbound packer is nil; when New succeeds, the inbound registry maps     *)
(* each encoding type of the inbound packers and the outbound packer to the *)
(* first packer registered with it, in the order inbound packers (list      *)
(* order) then outbound packer, so the outbound packer's type is always     *)
(* registered and no later packer replaces an earlier one; UnpackMessage,   *)
(* for a message whose encoding type can be read, calls Unpack of the       *)
(* packer registered for that type and of no other, and fails with          *)
(* "message Type not recognized" without calling a packer when none is      *)
(* registered.                                                              *)
PackerRegistry ==
    /\ (NewCalled /\ IsNil(provider.Packer)) =>
          /\ newOut.status = "error"
          /\ newOut.err.chain = <<"need outbound packer to initialize packager">>
          /\ IsNil(newOut.packager)
          /\ IsNil(packager)
    /\ (NewCalled /\ ~IsNil(provider.Packer)) =>
          /\ newOut.status = "ok"
          /\ packager = newOut.packager
          /\ ~IsNil(packager)
          /\ Deref(packager).packer = provider.Packer
          /\ DOMAIN Deref(packager).inboundPackers = RegisteredTypes
          /\ Deref(provider.Packer).enc \in DOMAIN Deref(packager).inboundPackers
          /\ \A enc \in RegisteredTypes :
                Deref(packager).inboundPackers[enc] = FirstRegistered(enc)
    /\ (UnpackCalled /\ HasEncodingType) =>
          IF encMessage.typ \in RegisteredTypes
          THEN /\ unpackOut.by = Ptr(FirstRegistered(encMessage.typ))
               /\ FirstRegistered(encMessage.typ).opens =>
                     /\ unpackOut.status = "ok"
                     /\ unpackOut.envelope =
                           Ptr([Message |-> <<FirstRegistered(encMessage.typ).name,
                                              encMessage.payload>>])
               /\ ~FirstRegistered(encMessage.typ).opens =>
                     /\ unpackOut.status = "error"
                     /\ unpackOut.err.chain[1] = "unpack"
          ELSE /\ unpackOut.status = "error"
               /\ unpackOut.err.chain = <<"message Type not recognized">>
               /\ IsNil(unpackOut.envelope)
               /\ IsNil(unpackOut.by)

(* Two inbound packers and the outbound packer, all different objects of    *)
(* one encoding type: a message of that type was unpacked by the first.     *)
PackerRegistryWitness ==
    /\ newOut.status = "ok"
    /\ Len(provider.InboundPackers) = 2
    /\ provider.InboundPackers[1].enc = provider.InboundPackers[2].enc
    /\ provider.InboundPackers[1] # provider.InboundPackers[2]
    /\ Deref(provider.Packer).enc = provider.InboundPackers[1].enc
    /\ Deref(provider.Packer) # provider.InboundPackers[1]
    /\ UnpackCalled
    /\ HasEncodingType
    /\ encMessage.typ = provider.InboundPackers[1].enc
    /\ unpackOut.status = "ok"
    /\ unpackOut.by = Ptr(provider.InboundPackers[1])

-----------------------------------------------------------------------------
(* Properties of repeated calls. *)

(* Two recorded calls have the same outcome: the same status and error      *)
(* kind, the same result mapping (Match), an equal typed object (Resolve).  *)
SameOutcome(a, b) ==
    /\ a.status = b.status
    /\ a.err.chain = b.err.chain
    /\ a.op = "Match" => a.result = b.result
    /\ a.op = "Resolve" => a.value = b.value

SameCall(a, b) == a.op = b.op /\ a.input = b.input

(* The Match half of P5: two calls of Match on the same definition and      *)
(* presentation have the same outcome.                                      *)
MatchRunsAgree ==
    \A j, k \in DOMAIN runs :
        (runs[j].op = "Match" /\ SameCall(runs[j], runs[k])) =>
            SameOutcome(runs[j], runs[k])

(* What two calls of CreateCustomCredential on the same bytes and producer  *)
(* list do agree on: the status, the error, and the type and base           *)
(* credential of the object.                                                *)
ResolveRunsAgreeOnKind ==
    \A j, k \in DOMAIN runs :
        (runs[j].op = "Resolve" /\ SameCall(runs[j], runs[k])) =>
            /\ runs[j].status = runs[k].status
            /\ runs[j].err = runs[k].err
            /\ runs[j].status = "ok" =>
                  /\ Deref(runs[j].value).type = Deref(runs[k].value).type
                  /\ Deref(runs[j].value).Base = Deref(runs[k].value).Base

(* C12 (determinism, P5), as stated: two calls of Match on the same         *)
(* definition and presentation, and two calls of CreateCustomCredential on  *)
(* the same bytes and producer list, have the same outcome.  Cred1.Apply    *)
(* decodes into the producer itself and returns it, so a field the bytes do *)
(* not carry keeps what an earlier call on other bytes left in it, and the  *)
(* Resolve half does not hold.                                              *)
DeterminismP5 ==
    \A j, k \in DOMAIN runs :
        SameCall(runs[j], runs[k]) => SameOutcome(runs[j], runs[k])

(* Two calls on the same bytes with the same producer list returned objects *)
(* that differ, a call on other bytes having been made between them.        *)
DeterminismP5Witness ==
    /\ Len(runs) = 3
    /\ runs[1].op = "Resolve"
    /\ runs[2].op = "Resolve"
    /\ SameCall(runs[1], runs[3])
    /\ runs[1].input # runs[2].input
    /\ runs[1].status = "ok"
    /\ runs[3].status = "ok"
    /\ runs[1].value # runs[3].value

-----------------------------------------------------------------------------
(* Properties of concurrent calls. *)

(* The calls made so far, returned or not, are on pairwise distinct inputs. *)
DistinctInputs ==
    /\ \A j, k \in DOMAIN runs : j # k => ~SameCall(runs[j], runs[k])
    /\ \A w \in ActiveWorkers : \A k \in DOMAIN runs : ~SameCall(workers[w], runs[k])
    /\ \A v, w \in ActiveWorkers : v # w => ~SameCall(workers[v], workers[w])

(* The producer objects as NewCred1Producer makes them. *)
FreshCred1 == [inst \in {1} |-> ZeroObject("Cred1")]

(* The outcome of the recorded call r had it been the only call made. *)
RunAlone(r) ==
    IF r.op = "Match"
    THEN MatchRun(r.input, Match(r.input.definition, r.input.vp))
    ELSE LET alone == CreateCustomCredential(r.input, producers, FreshCred1)
         IN  ResolveRun(r.input, alone.out, alone.heap)

(* The object the pointer returned by the recorded call r points to now. *)
ValueNow(r) ==
    IF IsNil(r.result) THEN Nil
    ELSE IF Deref(r.result).ref # 0 THEN Ptr(cred1[Deref(r.result).ref])
    ELSE Ptr(Deref(r.result).val)

(* A returned call whose object is not the one it returns when run alone. *)
DiffersFromAlone(r) == ~SameOutcome(r, RunAlone(r))

(* C13 (concurrent safety), as stated: in any interleaving of concurrent    *)
(* calls of Match and CreateCustomCredential on distinct inputs, every call *)
(* has the outcome it has when run alone, and the object a call of          *)
(* CreateCustomCredential returned is not changed by a later or concurrent  *)
(* call.  The calls share the producer list, and Cred1.Apply writes the     *)
(* Cred1 of the list and returns a pointer to it, so concurrent and later   *)
(* calls write the object a call returns: this does not hold.               *)
ConcurrentSafety ==
    DistinctInputs =>
        \A k \in DOMAIN runs :
            /\ SameOutcome(runs[k], RunAlone(runs[k]))
            /\ runs[k].op = "Resolve" => ValueNow(runs[k]) = runs[k].value

(* Where it does hold: with a producer list that holds no Cred1, every call *)
(* has the outcome it has alone and returned objects stay as they were.     *)
ConcurrentSafetyWithoutCred1 ==
    (\A i \in DOMAIN producers : producers[i].kind # "Cred1") =>
        \A k \in DOMAIN runs :
            /\ SameOutcome(runs[k], RunAlone(runs[k]))
            /\ runs[k].op = "Resolve" => ValueNow(runs[k]) = runs[k].value

(* The first call to return, made on bytes of its own, returned an object   *)
(* that differs from the one it returns when run alone: a concurrent call   *)
(* wrote it.                                                                *)
ConcurrentSafetyWitness ==
    /\ DistinctInputs
    /\ Len(runs) = 1
    /\ runs[1].op = "Resolve"
    /\ runs[1].status = "ok"
    /\ DiffersFromAlone(runs[1])

====
